---- MODULE Spec2Model ----
(***************************************************************************)
(* Pendulum simulator: the parameter store (SimulatorContext), the         *)
(* settings panel's update path and the animation / integration loop of    *)
(* PendulumVisualization.                                                  *)
(*                                                                         *)
(* Numbers are fixed-point integers:                                       *)
(*   length            centimetres                                         *)
(*   mass, gravity,                                                        *)
(*   damping           hundredths                                          *)
(*   timeInterval      thousandths of a second (so 0.001 s is 1)           *)
(*   simulationSpeed   tenths                                              *)
(*   startingAngle     degrees                                             *)
(*   angles, angular                                                       *)
(*   velocities        1/Scale rad, 1/Scale rad/s                          *)
(*   timestamps        milliseconds                                        *)
(*   accumulator, dt   thousandths of a second                             *)
(*                                                                         *)
(* Arithmetic is exact on this grid: IEEE rounding is not modelled, and    *)
(* the inputs of Spec are numbers (no NaN).  A state update together with  *)
(* the render and the effects it triggers is one step: a new params object *)
(* tears the animation effect down and runs it again within the step.      *)
(* Window resizes and image changes are not steps of Spec; the canvas size *)
(* is fixed by the initial state.                                          *)
(***************************************************************************)
EXTENDS Integers, Sequences, FiniteSets, TLC

VARIABLES
    params,             \* SimulatorProvider: useState(defaultParams)
    defaultParams,      \* the module-level defaultParams object (mutable)
    paramsIsDefault,    \* params is the very object defaultParams
    isPlaying,          \* SimulatorProvider: useState(false)
    isPlayingRef,       \* PendulumVisualization: isPlayingRef.current
    resetTrigger,       \* PendulumSimulatorContent: useState(0)
    canvasSize,         \* PendulumSimulatorContent: useState({400, 400})
    currentAngle,       \* closure of the running animation effect
    currentVelocity,
    dt,
    simulationSpeed,
    accumulator,
    lastTimestamp,
    clock,              \* performance clock handed to requestAnimationFrame
    lastOp,             \* history: the operation that produced this state
    frameTime,          \* history: frameTime computed by the last draw
    loopSteps,          \* history: iterations of the while loop in the last draw
    stepSize,           \* history: effective step used by the last iteration
    lastInput,          \* history: the (key, value) of the last parameter update
    pauseMark,          \* history: angle, velocity, accumulator at the last pause
    resetsInRow,        \* history: consecutive resets that led here (up to 2)
    nSets,              \* history: number of parameter updates so far
    mount,              \* what mounting PendulumVisualization came to
    thrown,             \* an Error has been thrown while rendering
    pc,                 \* "loop" while a call of draw is inside its while loop
    pending,            \* frame requests the browser holds: of the running
                        \* effect ("current") or of one cleaned up ("stale")
    ballImage,          \* PendulumSimulatorContent: useState(null)
    imageSettings,      \* SimulatorProvider: useState(defaultImageSettings)
    activeTooltipKey,   \* TooltipTriggerIcon: module-level activeTooltipKey
    isTooltipOpen,      \* TooltipTriggerIcon: useState(false) of each icon
    isImageSettingsOpen, \* PendulumSimulatorContent: useState(false)
    zoom,               \* useZoomAndPan: useState(1), in thousandths
    pan,                \* useZoomAndPan: useState({x: 0, y: 0})
    isDragging,         \* useZoomAndPan: useState(false)
    dragStart           \* useZoomAndPan: useState({x: 0, y: 0})

vars == <<params, defaultParams, paramsIsDefault, isPlaying, isPlayingRef,
          resetTrigger, canvasSize, currentAngle, currentVelocity, dt,
          simulationSpeed, accumulator, lastTimestamp, clock, lastOp,
          frameTime, loopSteps, stepSize, lastInput, pauseMark,
          resetsInRow, nSets, mount, thrown, pc, pending, ballImage,
          imageSettings, activeTooltipKey, isTooltipOpen,
          isImageSettingsOpen, zoom, pan, isDragging, dragStart>>

\* the state of the image settings, the tooltips and the view
uiVars == <<ballImage, imageSettings, activeTooltipKey, isTooltipOpen,
            isImageSettingsOpen, zoom, pan, isDragging, dragStart>>

(***************************************************************************)
(* Bounds of the model.                                                    *)
(***************************************************************************)
MaxClock == 100
MaxSets == 1
MaxResetTrigger == 1
MaxPan == 20

FrameDeltas == {0, 45, 100}

CanvasSizes == {[width |-> 400, height |-> 400], [width |-> 300, height |-> 500]}

(***************************************************************************)
(* Arithmetic.                                                             *)
(***************************************************************************)
Scale == 10 ^ 4

Null == -1

\* the value Number.parseFloat gives for text that is not a number; every
\* arithmetic operation with a NaN operand yields NaN, every comparison false
NaN == -(2 ^ 30)

PI == 31416

\* Math.max
Max(a, b) == IF a = NaN \/ b = NaN THEN NaN ELSE IF a >= b THEN a ELSE b

\* Math.min
Min(a, b) == IF a = NaN \/ b = NaN THEN NaN ELSE IF a <= b THEN a ELSE b

\* division of the fixed-point values, symmetric about zero
Quot(a, b) == IF a >= 0 THEN a \div b ELSE -((-a) \div b)

\* Math.sin on angles in 1/Scale rad, result in 1/Scale
Sin(x) ==
    LET r  == ((x + PI) % (2 * PI)) - PI
        y  == IF r > PI \div 2 THEN PI - r
              ELSE IF r < -(PI \div 2) THEN -PI - r
              ELSE r
        y2 == Quot(y * y, Scale)
        t3 == Quot(y * y2, 6 * Scale)
        t5 == Quot(t3 * y2, 20 * Scale)
        t7 == Quot(t5 * y2, 42 * Scale)
    IN  y - t3 + t5 - t7

\* (deg * Math.PI) / 180
DegToRad(deg) == IF deg = NaN THEN NaN ELSE Quot(deg * PI, 180)

(***************************************************************************)
(* SimulatorContext                                                        *)
(***************************************************************************)
ParamKeys == {"length", "mass", "startingAngle", "gravity", "damping",
              "timeInterval", "simulationSpeed"}

MIN_SAFE_VALUES ==
    [length |-> 1, mass |-> 10, gravity |-> 1, damping |-> 0,
     timeInterval |-> 1, simulationSpeed |-> 1]

DefaultParams ==
    [length |-> 100, mass |-> 100, startingAngle |-> 45, gravity |-> 981,
     damping |-> 0, timeInterval |-> 10, simulationSpeed |-> 300,
     currentAngle |-> DegToRad(45), currentVelocity |-> 0]

\* updatedParams.f ?? prevParams.f
Coalesce(updatedParams, prevParams, f) ==
    IF f \in DOMAIN updatedParams THEN updatedParams[f] ELSE prevParams[f]

\* the value setValidatedParams stores for field f
ValidatedField(updatedParams, prevParams, f) ==
    IF f \in DOMAIN MIN_SAFE_VALUES
    THEN Max(Coalesce(updatedParams, prevParams, f), MIN_SAFE_VALUES[f])
    ELSE Coalesce(updatedParams, prevParams, f)

setValidatedParamsRestsBob(prevParams, updatedParams) ==
    [f \in DOMAIN prevParams \cup DOMAIN updatedParams |->
        IF f = "currentVelocity" THEN 0
        ELSE ValidatedField(updatedParams, prevParams, f)]

\* setValidatedParams: { ...prevParams, ...updatedParams, length: Math.max(..), .. }
setValidatedParams(prevParams, updatedParams) ==
    [f \in DOMAIN prevParams \cup DOMAIN updatedParams |->
        ValidatedField(updatedParams, prevParams, f)]

resetParamsValueSpreadOnly(dp) == dp

\* the object resetParams hands to setParams
resetParamsValue(dp) ==
    [dp EXCEPT !.currentAngle = DegToRad(dp.startingAngle),
               !.currentVelocity = 0]

(***************************************************************************)
(* SettingsPanel                                                           *)
(***************************************************************************)
PanelMinimumsDrifted ==
    [length |-> 10, mass |-> 10, gravity |-> 1, damping |-> 0,
     timeInterval |-> 1, simulationSpeed |-> 1]

\* SettingsPanel.tsx keeps its own copy of the table
PANEL_MIN_SAFE_VALUES ==
    [length |-> 1, mass |-> 10, gravity |-> 1, damping |-> 0,
     timeInterval |-> 1, simulationSpeed |-> 1]

\* MIN_SAFE_VALUES[key] ?? 0
getSafeMinValue(key) ==
    IF key \in DOMAIN PANEL_MIN_SAFE_VALUES THEN PANEL_MIN_SAFE_VALUES[key] ELSE 0

\* the updater handleInputChange passes to setParams
handleInputChangeUpdate(prev, key, value) ==
    [prev EXCEPT ![key] = Max(value, getSafeMinValue(key))]

\* values typed into the number field or dragged on the slider, per key
InputValues(key) ==
    CASE key = "length"          -> {-5, 50}
      [] key = "mass"            -> {5}
      [] key = "startingAngle"   -> {-90, 30}
      [] key = "gravity"         -> {0}
      [] key = "damping"         -> {-1, 50}
      [] key = "timeInterval"    -> {0, 4}
      [] key = "simulationSpeed" -> {-10}

(***************************************************************************)
(* PendulumVisualization: the animation effect                             *)
(***************************************************************************)
\* Math.max((params.length / 200) * Math.min(w, h) * 0.8, 1), in hundredths
scaledLength(p, size) ==
    IF p.length = NaN THEN NaN
    ELSE Max(Quot(p.length * Min(size.width, size.height) * 80, 200), 100)

\* -gravity / scaledLength * Math.sin(theta), in 1/Scale rad/s^2
GravityTerm(p, sl, theta) ==
    Quot(-Max(p.gravity, 1) * Sin(theta), sl)

\* dt * simulationSpeed, in 1/10000 s
effectiveDT(d, speed) == IF speed = NaN THEN NaN ELSE d * speed

\* x * effectiveDT
TimesStep(x, h) == Quot(x * h, 10000)

EulerStepNaive(st, p, sl, h) ==
    LET v == st.velocity + TimesStep(GravityTerm(p, sl, st.angle), h)
        a == st.angle + TimesStep(st.velocity, h)
    IN  [st EXCEPT !.angle = a, !.velocity = v]

\* lines 140-142: semi-implicit Euler
EulerStep(st, p, sl, h) ==
    LET v == st.velocity + TimesStep(GravityTerm(p, sl, st.angle), h)
        a == st.angle + TimesStep(v, h)
    IN  [st EXCEPT !.angle = a, !.velocity = v]

accelerationPerMass(p, sl, theta, omega) ==
    GravityTerm(p, sl, theta) - Quot(p.damping * omega, p.mass)

\* lines 148-149: acceleration(theta, omega)
acceleration(p, sl, theta, omega) ==
    GravityTerm(p, sl, theta) - Quot(p.damping * omega, 100)

RK4StepUnweighted(st, p, sl, h) ==
    LET a0 == st.angle
        v0 == st.velocity
        k1Angle == v0
        k1Omega == acceleration(p, sl, a0, v0)
        k2Angle == v0 + Quot(TimesStep(k1Omega, h), 2)
        k2Omega == acceleration(p, sl, a0 + Quot(TimesStep(k1Angle, h), 2),
                                       v0 + Quot(TimesStep(k1Omega, h), 2))
        k3Angle == v0 + Quot(TimesStep(k2Omega, h), 2)
        k3Omega == acceleration(p, sl, a0 + Quot(TimesStep(k2Angle, h), 2),
                                       v0 + Quot(TimesStep(k2Omega, h), 2))
        k4Angle == v0 + TimesStep(k3Omega, h)
        k4Omega == acceleration(p, sl, a0 + TimesStep(k3Angle, h),
                                       v0 + TimesStep(k3Omega, h))
    IN  [st EXCEPT
          !.angle = a0 + Quot(TimesStep(k1Angle + k2Angle + k3Angle + k4Angle, h), 6),
          !.velocity = v0 + Quot(TimesStep(k1Omega + k2Omega + k3Omega + k4Omega, h), 6)]

\* lines 145-166: RK4
RK4Step(st, p, sl, h) ==
    LET a0 == st.angle
        v0 == st.velocity
        k1Angle == v0
        k1Omega == acceleration(p, sl, a0, v0)
        k2Angle == v0 + Quot(TimesStep(k1Omega, h), 2)
        k2Omega == acceleration(p, sl, a0 + Quot(TimesStep(k1Angle, h), 2),
                                       v0 + Quot(TimesStep(k1Omega, h), 2))
        k3Angle == v0 + Quot(TimesStep(k2Omega, h), 2)
        k3Omega == acceleration(p, sl, a0 + Quot(TimesStep(k2Angle, h), 2),
                                       v0 + Quot(TimesStep(k2Omega, h), 2))
        k4Angle == v0 + TimesStep(k3Omega, h)
        k4Omega == acceleration(p, sl, a0 + TimesStep(k3Angle, h),
                                       v0 + TimesStep(k3Omega, h))
    IN  [st EXCEPT
          !.angle = a0 + Quot(TimesStep(k1Angle + 2 * k2Angle + 2 * k3Angle + k4Angle, h), 6),
          !.velocity = v0 + Quot(TimesStep(k1Omega + 2 * k2Omega + 2 * k3Omega + k4Omega, h), 6)]

\* an operand of the step is NaN.  No operation of lines 138-167 throws, so
\* the catch of lines 168-171 is never entered: the NaN is assigned
NaNOperand(st, p, sl, speed) ==
    NaN \in {st.angle, st.velocity, p.gravity, p.damping, sl, speed}

LoopBodyAlwaysEuler(st, p, sl, d, speed) ==
    LET h == effectiveDT(d, speed)
    IN  [EulerStep(st, p, sl, h) EXCEPT !.accumulator = st.accumulator - d,
                                        !.n = st.n + 1,
                                        !.h = h]

LoopBodyKeepsAccumulator(st, p, sl, d, speed) ==
    LET h == effectiveDT(d, speed)
        stepped == IF p.damping = 0 THEN EulerStep(st, p, sl, h)
                                    ELSE RK4Step(st, p, sl, h)
    IN  [stepped EXCEPT !.n = st.n + 1, !.h = h]

\* lines 137-173: the body of the while loop; n and h record what it did
LoopBody(st, p, sl, d, speed) ==
    LET h == effectiveDT(d, speed)
        stepped == IF NaNOperand(st, p, sl, speed)
                   THEN [st EXCEPT !.angle = NaN, !.velocity = NaN]
                   ELSE IF p.damping = 0 THEN EulerStep(st, p, sl, h)
                                         ELSE RK4Step(st, p, sl, h)
    IN  [stepped EXCEPT !.accumulator = st.accumulator - d,
                        !.n = st.n + 1,
                        !.h = h]

LoopConditionStrict(st, d) == d # NaN /\ st.accumulator > d

\* line 136: the loop condition
LoopCondition(st, d) == d # NaN /\ st.accumulator >= d

\* lines 136-174: while (accumulator >= dt) { ... }
RECURSIVE IntegrationLoop(_, _, _, _, _)
IntegrationLoop(st, p, sl, d, speed) ==
    IF LoopCondition(st, d)
    THEN IntegrationLoop(LoopBody(st, p, sl, d, speed), p, sl, d, speed)
    ELSE st

\* lines 70-73: frameTime = (timestamp - lastTimestamp) / 1000, in 1/1000 s
FrameTime(timestamp, last) ==
    LET l == IF last = Null THEN timestamp ELSE last
    IN  Quot((timestamp - l) * 1000, 1000)

AccumulateCapped(acc, playing, ft) == IF playing THEN acc + Min(ft, 50) ELSE acc

AccumulateAlways(acc, playing, ft) == acc + ft

\* lines 76-82: what the frame adds to the accumulator
Accumulate(acc, playing, ft) == IF playing THEN acc + ft ELSE acc

\* lines 75-174: what a frame of frame time ft does to angle, velocity and
\* accumulator; n counts the steps, h is the effective step of the last one
integrate(p, size, playing, angle, velocity, acc, d, speed, ft) ==
    LET st0 == [angle |-> angle, velocity |-> velocity,
                accumulator |-> Accumulate(acc, playing, ft),
                n |-> 0, h |-> 0]
    IN  IF playing
        THEN IntegrationLoop(st0, p, scaledLength(p, size), d, speed)
        ELSE st0

(***************************************************************************)
(* Initial state: the first render with its effects run, the container     *)
(* measured by updateCanvasSize.                                           *)
(***************************************************************************)
\* part_006:58-61, rotation in degrees and scale in tenths
defaultImageSettings == [rotation |-> 0, scale |-> 10]

\* the help icons: one per parameter in the settings panel, two in the image
\* settings modal
TooltipKeys == ParamKeys \cup {"rotation", "scale"}

\* the first render of the image settings, the tooltips and the view
UiInit ==
    /\ ballImage = "null"
    /\ imageSettings = defaultImageSettings
    /\ activeTooltipKey = "null"
    /\ isTooltipOpen = [k \in TooltipKeys |-> FALSE]
    /\ isImageSettingsOpen = FALSE
    /\ zoom = 1000
    /\ pan = [x |-> 0, y |-> 0]
    /\ isDragging = FALSE
    /\ dragStart = [x |-> 0, y |-> 0]

NoInput == [key |-> "none", value |-> 0]

NoMark == [set |-> FALSE, angle |-> 0, velocity |-> 0, accumulator |-> 0,
           advanced |-> FALSE]

Init ==
    /\ params = DefaultParams
    /\ defaultParams = DefaultParams
    /\ paramsIsDefault = TRUE
    /\ isPlaying = FALSE
    /\ isPlayingRef = FALSE
    /\ resetTrigger = 0
    /\ canvasSize \in CanvasSizes
    /\ currentAngle = DegToRad(DefaultParams.startingAngle)
    /\ currentVelocity = 0
    /\ dt = Max(DefaultParams.timeInterval, 1)
    /\ simulationSpeed = Max(DefaultParams.simulationSpeed, 1)
    /\ accumulator = 0
    /\ lastTimestamp = Null
    /\ clock = 0
    /\ lastOp = "init"
    /\ frameTime = 0
    /\ loopSteps = 0
    /\ stepSize = 0
    /\ lastInput = NoInput
    /\ pauseMark = NoMark
    /\ resetsInRow = 0
    /\ nSets = 0
    /\ mount = "running"
    /\ thrown = FALSE
    /\ pc = "idle"
    /\ pending = {"current"}
    /\ UiInit

cleanupFirstRequest(requests) ==
    IF "current" \in requests THEN (requests \ {"current"}) \cup {"stale"}
    ELSE requests

\* lines 184, 188 and 191: animationId always names the request that is
\* pending, so cancelAnimationFrame(animationId) in the cleanup removes it
cleanup(requests) == requests \ {"current"}

\* lines 52-57: the values the effect gives its locals
effectLocals(p) ==
    [currentAngle |-> DegToRad(p.startingAngle),
     currentVelocity |-> 0,
     dt |-> Max(p.timeInterval, 1),
     simulationSpeed |-> Max(p.simulationSpeed, 1),
     accumulator |-> 0]

\* lines 52-60 and 188: the locals of a run of the effect and its first
\* frame request, after the cleanup of the run before
StartLoop(p) ==
    /\ currentAngle' = effectLocals(p).currentAngle
    /\ currentVelocity' = effectLocals(p).currentVelocity
    /\ dt' = effectLocals(p).dt
    /\ simulationSpeed' = effectLocals(p).simulationSpeed
    /\ accumulator' = effectLocals(p).accumulator
    /\ lastTimestamp' = Null
    /\ pending' = cleanup(pending) \cup {"current"}

\* the effect's dependencies are unchanged: the loop goes on
KeepLoop ==
    UNCHANGED <<currentAngle, currentVelocity, dt, simulationSpeed,
                accumulator, lastTimestamp, pending>>

RestartLoopWithoutGuard(p) == StartLoop(p)

\* lines 41-57 and 187-192: the effect is cleaned up and run again with p;
\* without a canvas or a 2d context it returns before it creates anything
RestartLoop(p) ==
    IF mount = "running" THEN StartLoop(p) ELSE KeepLoop

\* the component tree is on screen and no call of draw is on the stack (event
\* handlers and frames run to completion): the buttons and fields can be used
Rendered == mount \in {"running", "idle"} /\ pc = "idle"

\* the frame history describes the last step only
NoFrame ==
    /\ frameTime' = 0
    /\ loopSteps' = 0
    /\ stepSize' = 0

(***************************************************************************)
(* Operations                                                              *)
(***************************************************************************)
TogglePlayRestarts ==
    /\ Rendered
    /\ UNCHANGED uiVars
    /\ isPlaying' = ~isPlaying
    /\ isPlayingRef' = ~isPlaying
    /\ lastOp' = IF isPlaying THEN "pause" ELSE "play"
    /\ pauseMark' = IF isPlaying
                    THEN [set |-> TRUE, angle |-> currentAngle,
                          velocity |-> currentVelocity,
                          accumulator |-> accumulator, advanced |-> FALSE]
                    ELSE pauseMark
    /\ RestartLoop(params)
    /\ NoFrame
    /\ lastInput' = NoInput
    /\ resetsInRow' = 0
    /\ UNCHANGED <<params, defaultParams, paramsIsDefault, resetTrigger,
                   canvasSize, clock, nSets, mount, thrown, pc>>

\* the Play/Pause buttons: setIsPlaying(!isPlaying), then the isPlayingRef effect
TogglePlay ==
    /\ Rendered
    /\ UNCHANGED uiVars
    /\ isPlaying' = ~isPlaying
    /\ isPlayingRef' = ~isPlaying
    /\ lastOp' = IF isPlaying THEN "pause" ELSE "play"
    /\ pauseMark' = IF isPlaying
                    THEN [set |-> TRUE, angle |-> currentAngle,
                          velocity |-> currentVelocity,
                          accumulator |-> accumulator, advanced |-> FALSE]
                    ELSE pauseMark
    /\ KeepLoop
    /\ NoFrame
    /\ lastInput' = NoInput
    /\ resetsInRow' = 0
    /\ UNCHANGED <<params, defaultParams, paramsIsDefault, resetTrigger,
                   canvasSize, clock, nSets, mount, thrown, pc>>

SetParamPauses ==
    /\ Rendered
    /\ UNCHANGED uiVars
    /\ nSets < MaxSets
    /\ \E key \in ParamKeys : \E value \in InputValues(key) :
          /\ params' = setValidatedParams(params,
                           handleInputChangeUpdate(params, key, value))
          /\ lastInput' = [key |-> key, value |-> value]
    /\ paramsIsDefault' = FALSE
    /\ RestartLoop(params')
    /\ isPlaying' = FALSE
    /\ isPlayingRef' = FALSE
    /\ lastOp' = "set"
    /\ nSets' = nSets + 1
    /\ NoFrame
    /\ pauseMark' = NoMark
    /\ resetsInRow' = 0
    /\ UNCHANGED <<defaultParams, resetTrigger, canvasSize, clock, mount,
                   thrown, pc>>

\* settings panel: handleInputChange(key, value) through setValidatedParams;
\* the new params object restarts the animation effect
SetParam ==
    /\ Rendered
    /\ UNCHANGED uiVars
    /\ nSets < MaxSets
    /\ \E key \in ParamKeys : \E value \in InputValues(key) :
          /\ params' = setValidatedParams(params,
                           handleInputChangeUpdate(params, key, value))
          /\ lastInput' = [key |-> key, value |-> value]
    /\ paramsIsDefault' = FALSE
    /\ RestartLoop(params')
    /\ lastOp' = "set"
    /\ nSets' = nSets + 1
    /\ NoFrame
    /\ pauseMark' = NoMark
    /\ resetsInRow' = 0
    /\ UNCHANGED <<defaultParams, isPlaying, isPlayingRef, resetTrigger,
                   canvasSize, clock, mount, thrown, pc>>

ResetAllToggles ==
    /\ Rendered
    /\ UNCHANGED uiVars
    /\ params' = resetParamsValue(defaultParams)
    /\ paramsIsDefault' = FALSE
    /\ isPlaying' = ~isPlaying
    /\ isPlayingRef' = ~isPlaying
    /\ RestartLoop(params')
    /\ lastOp' = "resetAll"
    /\ NoFrame
    /\ lastInput' = NoInput
    /\ pauseMark' = NoMark
    /\ resetsInRow' = Min(resetsInRow + 1, 2)
    /\ UNCHANGED <<defaultParams, resetTrigger, canvasSize, clock, nSets,
                   mount, thrown, pc>>

\* settings panel "Reset All": resetParams()
ResetAll ==
    /\ Rendered
    /\ UNCHANGED uiVars
    /\ params' = resetParamsValue(defaultParams)
    /\ paramsIsDefault' = FALSE
    /\ isPlaying' = FALSE
    /\ isPlayingRef' = FALSE
    /\ RestartLoop(params')
    /\ lastOp' = "resetAll"
    /\ NoFrame
    /\ lastInput' = NoInput
    /\ pauseMark' = NoMark
    /\ resetsInRow' = Min(resetsInRow + 1, 2)
    /\ UNCHANGED <<defaultParams, resetTrigger, canvasSize, clock, nSets,
                   mount, thrown, pc>>

\* toolbar "Reset": handleReset()
HandleReset ==
    /\ Rendered
    /\ UNCHANGED uiVars
    /\ resetTrigger < MaxResetTrigger
    /\ isPlaying' = FALSE
    /\ isPlayingRef' = FALSE
    /\ params' = resetParamsValue(defaultParams)
    /\ paramsIsDefault' = FALSE
    /\ resetTrigger' = resetTrigger + 1
    /\ RestartLoop(params')
    /\ lastOp' = "reset"
    /\ NoFrame
    /\ lastInput' = NoInput
    /\ pauseMark' = NoMark
    /\ resetsInRow' = Min(resetsInRow + 1, 2)
    /\ UNCHANGED <<defaultParams, canvasSize, clock, nSets, mount, thrown, pc>>

writeBackStartingAngle(p, angle, velocity) ==
    [p EXCEPT !.currentAngle = angle, !.currentVelocity = velocity,
              !.startingAngle = Quot(angle * 180, PI)]

\* lines 179-180: params.currentAngle = ..., params.currentVelocity = ...
writeBack(p, angle, velocity) ==
    [p EXCEPT !.currentAngle = angle, !.currentVelocity = velocity]

\* one animation frame: draw(timestamp), called for a pending request, which
\* line 184 replaces by the next one of the same loop.  A frame of a loop
\* whose effect was cleaned up is marked as such in lastOp.
Draw ==
    \E delta \in FrameDeltas : \E request \in pending :
      /\ mount = "running"
      /\ pc = "idle"
      /\ lastOp' = IF request = "current" THEN "draw" ELSE "staleDraw"
      /\ UNCHANGED <<pending, uiVars>>
      /\ clock + delta <= MaxClock
      /\ LET timestamp == clock + delta
             ft   == FrameTime(timestamp, lastTimestamp)
             st1  == integrate(params, canvasSize, isPlayingRef, currentAngle,
                               currentVelocity, accumulator, dt,
                               simulationSpeed, ft)
         IN  /\ clock' = timestamp
             /\ lastTimestamp' = timestamp
             /\ frameTime' = ft
             /\ accumulator' = st1.accumulator
             /\ currentAngle' = st1.angle
             /\ currentVelocity' = st1.velocity
             /\ loopSteps' = st1.n
             /\ stepSize' = st1.h
             /\ IF isPlayingRef
                THEN /\ params' = writeBack(params, st1.angle, st1.velocity)
                     /\ defaultParams' =
                          IF paramsIsDefault THEN params' ELSE defaultParams
                     /\ pauseMark' = NoMark
                ELSE /\ UNCHANGED <<params, defaultParams>>
                     /\ pauseMark' =
                          IF pauseMark.set
                          THEN [pauseMark EXCEPT !.advanced = @ \/ ft > 0]
                          ELSE pauseMark
      /\ lastInput' = NoInput
      /\ resetsInRow' = 0
      /\ UNCHANGED <<paramsIsDefault, isPlaying, isPlayingRef, resetTrigger,
                     canvasSize, dt, simulationSpeed, nSets, mount, thrown, pc>>

Next ==
    \/ TogglePlay
    \/ SetParam
    \/ ResetAll
    \/ HandleReset
    \/ Draw

Spec == Init /\ [][Next]_vars

(***************************************************************************)
(* The frame at the grain of its while loop: draw enters the loop, runs    *)
(* one iteration at a time and leaves.  A call that has started runs to    *)
(* completion, which is the fairness of SpecLoop.  The initial states are  *)
(* the initial state and the states one parameter update away from it.     *)
(***************************************************************************)
InitLoop ==
    /\ \/ /\ params = DefaultParams
          /\ paramsIsDefault = TRUE
          /\ lastInput = NoInput
          /\ lastOp = "init"
          /\ nSets = 0
       \/ /\ \E key \in ParamKeys : \E value \in InputValues(key) :
                /\ params = setValidatedParams(DefaultParams,
                       handleInputChangeUpdate(DefaultParams, key, value))
                /\ lastInput = [key |-> key, value |-> value]
          /\ paramsIsDefault = FALSE
          /\ lastOp = "set"
          /\ nSets = 1
    /\ defaultParams = DefaultParams
    /\ isPlaying = FALSE
    /\ isPlayingRef = FALSE
    /\ resetTrigger = 0
    /\ canvasSize \in CanvasSizes
    /\ currentAngle = effectLocals(params).currentAngle
    /\ currentVelocity = effectLocals(params).currentVelocity
    /\ dt = effectLocals(params).dt
    /\ simulationSpeed = effectLocals(params).simulationSpeed
    /\ accumulator = effectLocals(params).accumulator
    /\ lastTimestamp = Null
    /\ clock = 0
    /\ frameTime = 0
    /\ loopSteps = 0
    /\ stepSize = 0
    /\ pauseMark = NoMark
    /\ resetsInRow = 0
    /\ mount = "running"
    /\ thrown = FALSE
    /\ pc = "idle"
    /\ pending = {"current"}
    /\ UiInit

\* lines 66-82 and 134: the frame time is taken and accumulated
BeginDraw ==
    /\ mount = "running"
    /\ pc = "idle"
    /\ "current" \in pending
    /\ UNCHANGED <<pending, uiVars>>
    /\ \E delta \in FrameDeltas :
          /\ clock + delta <= MaxClock
          /\ clock' = clock + delta
    /\ frameTime' = FrameTime(clock', lastTimestamp)
    /\ accumulator' = Accumulate(accumulator, isPlayingRef, frameTime')
    /\ lastTimestamp' = clock'
    /\ loopSteps' = 0
    /\ stepSize' = 0
    /\ pc' = "loop"
    /\ lastOp' = "frame"
    /\ lastInput' = NoInput
    /\ resetsInRow' = 0
    /\ UNCHANGED <<params, defaultParams, paramsIsDefault, isPlaying,
                   isPlayingRef, resetTrigger, canvasSize, currentAngle,
                   currentVelocity, dt, simulationSpeed, pauseMark, nSets,
                   mount, thrown>>

\* the loop is entered or goes round once more
LoopGoesOn ==
    isPlayingRef /\ LoopCondition([accumulator |-> accumulator], dt)

\* lines 136-174: one iteration of the while loop
LoopIteration ==
    /\ pc = "loop"
    /\ UNCHANGED <<pending, uiVars>>
    /\ LoopGoesOn
    /\ LET st == LoopBody([angle |-> currentAngle, velocity |-> currentVelocity,
                           accumulator |-> accumulator, n |-> loopSteps,
                           h |-> stepSize],
                          params, scaledLength(params, canvasSize), dt,
                          simulationSpeed)
       IN  /\ currentAngle' = st.angle
           /\ currentVelocity' = st.velocity
           /\ accumulator' = st.accumulator
           /\ loopSteps' = st.n
           /\ stepSize' = st.h
    /\ UNCHANGED <<params, defaultParams, paramsIsDefault, isPlaying,
                   isPlayingRef, resetTrigger, canvasSize, dt, simulationSpeed,
                   lastTimestamp, clock, lastOp, frameTime, lastInput,
                   pauseMark, resetsInRow, nSets, mount, thrown, pc>>

\* lines 176-185: the loop is left, the values are written back and the next
\* frame is requested
EndDraw ==
    /\ pc = "loop"
    /\ UNCHANGED <<pending, uiVars>>
    /\ ~LoopGoesOn
    /\ IF isPlayingRef
       THEN /\ params' = writeBack(params, currentAngle, currentVelocity)
            /\ defaultParams' = IF paramsIsDefault THEN params' ELSE defaultParams
            /\ pauseMark' = NoMark
       ELSE /\ UNCHANGED <<params, defaultParams>>
            /\ pauseMark' = IF pauseMark.set
                            THEN [pauseMark EXCEPT !.advanced = @ \/ frameTime > 0]
                            ELSE pauseMark
    /\ pc' = "idle"
    /\ lastOp' = "draw"
    /\ UNCHANGED <<paramsIsDefault, isPlaying, isPlayingRef, resetTrigger,
                   canvasSize, currentAngle, currentVelocity, dt,
                   simulationSpeed, accumulator, lastTimestamp, clock,
                   frameTime, loopSteps, stepSize, lastInput, resetsInRow,
                   nSets, mount, thrown>>

NextLoop ==
    \/ TogglePlay
    \/ BeginDraw
    \/ LoopIteration
    \/ EndDraw

\* the steps that are iterations of the loop
LoopProgress ==
    /\ pc = "loop"
    /\ LoopGoesOn
    /\ loopSteps' = loopSteps + 1

SpecLoop ==
    /\ InitLoop
    /\ [][NextLoop]_vars
    /\ WF_loopSteps(LoopProgress)
    /\ WF_vars(EndDraw)

(***************************************************************************)
(* Mounting.  SpecMount starts before PendulumVisualization is rendered:   *)
(* the component may be used outside a SimulatorProvider, and the canvas   *)
(* or its 2d context may be missing.                                       *)
(***************************************************************************)
InitMount ==
    /\ params = DefaultParams
    /\ defaultParams = DefaultParams
    /\ paramsIsDefault = TRUE
    /\ isPlaying = FALSE
    /\ isPlayingRef = FALSE
    /\ resetTrigger = 0
    /\ canvasSize \in CanvasSizes
    /\ currentAngle = 0
    /\ currentVelocity = 0
    /\ dt = 0
    /\ simulationSpeed = 0
    /\ accumulator = 0
    /\ lastTimestamp = Null
    /\ clock = 0
    /\ lastOp = "init"
    /\ frameTime = 0
    /\ loopSteps = 0
    /\ stepSize = 0
    /\ lastInput = NoInput
    /\ pauseMark = NoMark
    /\ resetsInRow = 0
    /\ nSets = 0
    /\ mount = "pending"
    /\ thrown = FALSE
    /\ pc = "idle"
    /\ pending = {}
    /\ UiInit

\* the first render of PendulumVisualization and the first run of its
\* effect: useSimulator throws outside a provider (part_006:129-135); the
\* effect returns at line 43 or line 50 when there is no canvas or no 2d
\* context, before it creates its locals or requests a frame
Mount ==
    /\ mount = "pending"
    /\ UNCHANGED uiVars
    /\ \E hasProvider \in BOOLEAN : \E hasContext \in BOOLEAN :
          IF ~hasProvider
          THEN mount' = "failed" /\ thrown' = TRUE /\ KeepLoop
          ELSE IF ~hasContext
          THEN mount' = "idle" /\ thrown' = FALSE /\ KeepLoop
          ELSE mount' = "running" /\ thrown' = FALSE /\ StartLoop(params)
    /\ lastOp' = "mount"
    /\ UNCHANGED <<params, defaultParams, paramsIsDefault, isPlaying,
                   isPlayingRef, resetTrigger, canvasSize, clock, frameTime,
                   loopSteps, stepSize, lastInput, pauseMark, resetsInRow,
                   nSets, pc>>

NextMount ==
    \/ Mount
    \/ Next

SpecMount == InitMount /\ [][NextMount]_vars

(***************************************************************************)
(* Runs from parameter sets the sliders reach with two updates: the        *)
(* animation after the updates, played, paused and drawn.                  *)
(***************************************************************************)
\* all within the slider ranges of getSliderMin / getSliderMax
SliderParams ==
    {DefaultParams,
     [DefaultParams EXCEPT !.damping = 50],
     [DefaultParams EXCEPT !.damping = 200, !.timeInterval = 100],
     [DefaultParams EXCEPT !.length = 2, !.timeInterval = 45]}

InitEnergy ==
    /\ params \in SliderParams
    /\ defaultParams = DefaultParams
    /\ paramsIsDefault = FALSE
    /\ isPlaying = FALSE
    /\ isPlayingRef = FALSE
    /\ resetTrigger = 0
    /\ canvasSize \in CanvasSizes
    /\ currentAngle = effectLocals(params).currentAngle
    /\ currentVelocity = effectLocals(params).currentVelocity
    /\ dt = effectLocals(params).dt
    /\ simulationSpeed = effectLocals(params).simulationSpeed
    /\ accumulator = effectLocals(params).accumulator
    /\ lastTimestamp = Null
    /\ clock = 0
    /\ lastOp = "set"
    /\ frameTime = 0
    /\ loopSteps = 0
    /\ stepSize = 0
    /\ lastInput = NoInput
    /\ pauseMark = NoMark
    /\ resetsInRow = 0
    /\ nSets = 2
    /\ mount = "running"
    /\ thrown = FALSE
    /\ pc = "idle"
    /\ pending = {"current"}
    /\ UiInit

NextEnergy ==
    \/ TogglePlay
    \/ Draw

SpecEnergy == InitEnergy /\ [][NextEnergy]_vars

(***************************************************************************)
(* The same program with a number field that can also deliver NaN:         *)
(* clearing the field makes Number.parseFloat("") the input.               *)
(***************************************************************************)
\* handleInputChange(key, NaN): Math.max(NaN, min) is NaN in the panel and in
\* setValidatedParams, and NaN ?? prev is NaN, so NaN is stored
SetParamNaN ==
    /\ Rendered
    /\ UNCHANGED uiVars
    /\ nSets < MaxSets
    /\ \E key \in ParamKeys :
          /\ params' = setValidatedParams(params,
                           handleInputChangeUpdate(params, key, NaN))
          /\ lastInput' = [key |-> key, value |-> NaN]
    /\ paramsIsDefault' = FALSE
    /\ RestartLoop(params')
    /\ lastOp' = "set"
    /\ nSets' = nSets + 1
    /\ NoFrame
    /\ pauseMark' = NoMark
    /\ resetsInRow' = 0
    /\ UNCHANGED <<defaultParams, isPlaying, isPlayingRef, resetTrigger,
                   canvasSize, clock, mount, thrown, pc>>

NextNaN ==
    \/ Next
    \/ SetParamNaN

SpecNaN == Init /\ [][NextNaN]_vars

(***************************************************************************)
(* The same program with the inputs of the rendering: the window is        *)
(* resized, a ball image is loaded or removed, the image settings are      *)
(* edited.  width, height, ballImage and imageSettings are dependencies of *)
(* the animation effect (line 192).                                        *)
(***************************************************************************)
BallImages == {"null", "image"}

\* ImageSettingsModal.tsx:67-68 and 93-94, a few positions of the two sliders
ImageSettingValues(f) ==
    IF f = "rotation" THEN {0, 90} ELSE {10, 20}

\* what an event outside the settings panel and the toolbar leaves alone
RenderFrame ==
    /\ NoFrame
    /\ lastInput' = NoInput
    /\ pauseMark' = NoMark
    /\ resetsInRow' = 0
    /\ UNCHANGED <<params, defaultParams, paramsIsDefault, isPlaying,
                   isPlayingRef, resetTrigger, clock, nSets, mount, thrown,
                   pc, activeTooltipKey, isTooltipOpen, zoom, pan, isDragging,
                   dragStart>>

\* PendulumSimulatorContent.tsx:67-77: updateCanvasSize on a window resize;
\* the new width or height prop runs the animation effect again
Resize ==
    /\ Rendered
    /\ \E size \in CanvasSizes \ {canvasSize} : canvasSize' = size
    /\ RestartLoop(params)
    /\ lastOp' = "resize"
    /\ RenderFrame
    /\ UNCHANGED <<ballImage, imageSettings, isImageSettingsOpen>>

\* PendulumSimulatorContent.tsx:52-54 and 133: setBallImage(reader.result),
\* which also opens the image settings, and setBallImage(null)
SetBallImage ==
    /\ Rendered
    /\ \E image \in BallImages \ {ballImage} : ballImage' = image
    /\ isImageSettingsOpen' = (isImageSettingsOpen \/ ballImage' # "null")
    /\ RestartLoop(params)
    /\ lastOp' = "image"
    /\ RenderFrame
    /\ UNCHANGED <<canvasSize, imageSettings>>

\* ImageSettingsModal.tsx:27 and 31: setImageSettings(prev => ({...prev, f:
\* value})) from a slider of the open modal, a new object whatever the value
SetImageSettings ==
    /\ Rendered
    /\ isImageSettingsOpen
    /\ \E f \in {"rotation", "scale"} : \E value \in ImageSettingValues(f) :
          imageSettings' = [imageSettings EXCEPT ![f] = value]
    /\ RestartLoop(params)
    /\ lastOp' = "imageSettings"
    /\ RenderFrame
    /\ UNCHANGED <<canvasSize, ballImage, isImageSettingsOpen>>

NextRender ==
    \/ TogglePlay
    \/ Draw
    \/ Resize
    \/ SetBallImage
    \/ SetImageSettings

SpecRender == Init /\ [][NextRender]_vars

(***************************************************************************)
(* The operations of Spec together with the window resize: every way the   *)
(* animation effect is cleaned up and run again between frames.            *)
(***************************************************************************)
NextSchedule ==
    \/ Next
    \/ Resize

SpecSchedule == Init /\ [][NextSchedule]_vars

(***************************************************************************)
(* The help icons.  Every TooltipTriggerIcon keeps its own isTooltipOpen   *)
(* and subscribes to the module-level activeTooltipKey.  The icons of the  *)
(* settings panel are always mounted (the closed panel is scaled to 0),    *)
(* those of the image settings only while the modal is open                *)
(* (DraggableModal returns null otherwise).                                *)
(***************************************************************************)
MountedIcons(modalOpen) ==
    ParamKeys \cup (IF modalOpen THEN {"rotation", "scale"} ELSE {})

notifyWithoutClosing(active, open, mounted) ==
    [k \in TooltipKeys |-> IF k \in mounted /\ active = k THEN TRUE ELSE open[k]]

\* part_005:12-14 and 90-93: every subscriber sets its isTooltipOpen to
\* activeTooltipKey === paramKey
notifyTooltipChange(active, open, mounted) ==
    [k \in TooltipKeys |-> IF k \in mounted THEN active = k ELSE open[k]]

\* what an event of the help icons and of the view leaves alone
UiFrame ==
    /\ NoFrame
    /\ KeepLoop
    /\ resetsInRow' = 0
    /\ UNCHANGED <<params, defaultParams, paramsIsDefault, isPlaying,
                   isPlayingRef, resetTrigger, canvasSize, clock, pauseMark,
                   nSets, mount, thrown, pc, ballImage, imageSettings>>

\* part_005:164-168: handleOpenTooltip of the icon paramKey
OpenTooltip ==
    /\ Rendered
    /\ \E paramKey \in MountedIcons(isImageSettingsOpen) :
          /\ activeTooltipKey' = paramKey
          /\ isTooltipOpen' = notifyTooltipChange(paramKey, isTooltipOpen,
                                  MountedIcons(isImageSettingsOpen))
          /\ lastInput' = [key |-> paramKey, value |-> 0]
    /\ lastOp' = "openTooltip"
    /\ UiFrame
    /\ UNCHANGED <<isImageSettingsOpen, zoom, pan, isDragging, dragStart>>

\* part_005:170-176: handleCloseTooltip of the icon paramKey, the onClose of
\* its tooltip (close button and mousedown outside)
CloseTooltip ==
    /\ Rendered
    /\ \E paramKey \in MountedIcons(isImageSettingsOpen) :
          /\ IF activeTooltipKey = paramKey
             THEN /\ activeTooltipKey' = "null"
                  /\ isTooltipOpen' =
                        notifyTooltipChange("null", isTooltipOpen,
                                            MountedIcons(isImageSettingsOpen))
             ELSE UNCHANGED <<activeTooltipKey, isTooltipOpen>>
          /\ lastInput' = [key |-> paramKey, value |-> 0]
    /\ lastOp' = "closeTooltip"
    /\ UiFrame
    /\ UNCHANGED <<isImageSettingsOpen, zoom, pan, isDragging, dragStart>>

\* PendulumSimulatorContent.tsx:95: onClose of the image settings; its two
\* icons are unmounted, activeTooltipKey is not touched
CloseImageSettings ==
    /\ Rendered
    /\ isImageSettingsOpen
    /\ isImageSettingsOpen' = FALSE
    /\ isTooltipOpen' = [isTooltipOpen EXCEPT !["rotation"] = FALSE,
                                               !["scale"] = FALSE]
    /\ lastInput' = NoInput
    /\ lastOp' = "closeImageSettings"
    /\ UiFrame
    /\ UNCHANGED <<activeTooltipKey, zoom, pan, isDragging, dragStart>>

\* PendulumSimulatorContent.tsx:115-120: the button shown with a ball image
OpenImageSettings ==
    /\ Rendered
    /\ ballImage # "null"
    /\ isImageSettingsOpen' = TRUE
    /\ lastInput' = NoInput
    /\ lastOp' = "openImageSettings"
    /\ UiFrame
    /\ UNCHANGED <<activeTooltipKey, isTooltipOpen, zoom, pan, isDragging,
                   dragStart>>

NextTooltip ==
    \/ OpenTooltip
    \/ CloseTooltip
    \/ SetBallImage
    \/ OpenImageSettings
    \/ CloseImageSettings

SpecTooltip == Init /\ [][NextTooltip]_vars

(***************************************************************************)
(* The view: useZoomAndPan and the zoom controls.  zoom in thousandths,    *)
(* the mouse and the pan in pixels.                                        *)
(***************************************************************************)
\* e.deltaY of a wheel event, one notch and a long scroll in either direction
WheelDeltas == {-5000, -100, 100, 5000}

\* e.clientX, e.clientY of a mouse event
MousePoints == {[x |-> 0, y |-> 0], [x |-> 10, y |-> 5]}

handleWheelUnclamped(prevZoom, deltaY) == prevZoom - deltaY

\* part_007:58: Math.max(0.5, Math.min(5, prevZoom - e.deltaY * 0.001))
handleWheelZoom(prevZoom, deltaY) ==
    Max(500, Min(5000, prevZoom - deltaY))

\* PendulumSimulatorContent.tsx:242: Math.min(5, z + 0.1)
onZoomIn(z) == Min(5000, z + 100)

\* PendulumSimulatorContent.tsx:243: Math.max(0.5, z - 0.1)
onZoomOut(z) == Max(500, z - 100)

ViewFrame ==
    /\ UiFrame
    /\ UNCHANGED <<activeTooltipKey, isTooltipOpen, isImageSettingsOpen>>

\* part_007:56-59: handleWheel
Wheel ==
    /\ Rendered
    /\ \E deltaY \in WheelDeltas :
          /\ zoom' = handleWheelZoom(zoom, deltaY)
          /\ lastInput' = [key |-> "deltaY", value |-> deltaY]
    /\ lastOp' = "wheel"
    /\ ViewFrame
    /\ UNCHANGED <<pan, isDragging, dragStart>>

\* the "+" button of the zoom controls
ZoomIn ==
    /\ Rendered
    /\ zoom' = onZoomIn(zoom)
    /\ lastInput' = NoInput
    /\ lastOp' = "zoomIn"
    /\ ViewFrame
    /\ UNCHANGED <<pan, isDragging, dragStart>>

\* the "-" button of the zoom controls
ZoomOut ==
    /\ Rendered
    /\ zoom' = onZoomOut(zoom)
    /\ lastInput' = NoInput
    /\ lastOp' = "zoomOut"
    /\ ViewFrame
    /\ UNCHANGED <<pan, isDragging, dragStart>>

\* PendulumSimulatorContent.tsx:244-247, the same as resetView (part_007:64-67)
ResetView ==
    /\ Rendered
    /\ zoom' = 1000
    /\ pan' = [x |-> 0, y |-> 0]
    /\ lastInput' = NoInput
    /\ lastOp' = "resetView"
    /\ ViewFrame
    /\ UNCHANGED <<isDragging, dragStart>>

\* part_007:24-30: handleMouseDown
MouseDown ==
    /\ Rendered
    /\ \E e \in MousePoints :
          dragStart' = [x |-> e.x - pan.x, y |-> e.y - pan.y]
    /\ isDragging' = TRUE
    /\ lastInput' = NoInput
    /\ lastOp' = "mouseDown"
    /\ ViewFrame
    /\ UNCHANGED <<zoom, pan>>

\* part_007:35-44: handleMouseMove
MouseMove ==
    /\ Rendered
    /\ \E e \in MousePoints :
          /\ pan' = IF isDragging
                    THEN [x |-> e.x - dragStart.x, y |-> e.y - dragStart.y]
                    ELSE pan
          /\ pan'.x <= MaxPan /\ -pan'.x <= MaxPan
    /\ lastInput' = NoInput
    /\ lastOp' = "mouseMove"
    /\ ViewFrame
    /\ UNCHANGED <<zoom, isDragging, dragStart>>

\* part_007:49-51: handleMouseUp
MouseUp ==
    /\ Rendered
    /\ isDragging' = FALSE
    /\ lastInput' = NoInput
    /\ lastOp' = "mouseUp"
    /\ ViewFrame
    /\ UNCHANGED <<zoom, pan, dragStart>>

NextView ==
    \/ Wheel
    \/ ZoomIn
    \/ ZoomOut
    \/ ResetView
    \/ MouseDown
    \/ MouseMove
    \/ MouseUp

SpecView == Init /\ [][NextView]_vars

(***************************************************************************)
(* Properties                                                              *)
(***************************************************************************)
Kinematic == <<currentAngle, currentVelocity, accumulator>>

Resets == {"reset", "resetAll"}

\* C1: in every reachable state, and so after every draw in either run
\* state, the accumulator is at least 0 and below the stored timeInterval.
C1_AccumulatorInRange ==
    /\ accumulator >= 0
    /\ accumulator < params.timeInterval

\* a running frame left a remainder in the accumulator after integrating
C1_Witness ==
    /\ lastOp = "draw"
    /\ isPlayingRef
    /\ loopSteps > 0
    /\ accumulator > 0

\* C2: a running draw that computes frame delta d with accumulator a performs
\* exactly floor((a + d) / timeInterval) steps, each of effective size
\* timeInterval * simulationSpeed, and leaves a + d - n * timeInterval; d is
\* added in full.
C2_StepCount ==
    [][(lastOp' = "draw" /\ isPlayingRef) =>
          LET d == IF lastTimestamp = Null THEN 0 ELSE clock' - lastTimestamp
              n == (accumulator + d) \div params.timeInterval
          IN  /\ loopSteps' = n
              /\ accumulator' = accumulator + d - n * params.timeInterval
              /\ n > 0 => stepSize' = params.timeInterval * params.simulationSpeed
    ]_vars

\* default parameters, a = 0, d = 0.1 s: 10 steps of effective size 0.3 s
C2_Witness ==
    /\ lastOp = "draw"
    /\ isPlayingRef
    /\ frameTime = 100
    /\ loopSteps = 10
    /\ stepSize = 3000
    /\ accumulator = 0
    /\ params.timeInterval = 10
    /\ params.simulationSpeed = 300

\* C3: a draw in the Paused state leaves angle, velocity and accumulator
\* unchanged and consumes the elapsed time (lastTimestamp becomes the frame's
\* timestamp); a draw in the Running state adds exactly the time since the
\* previous frame.
C3_PausedFrame ==
    [][lastOp' = "draw" =>
          /\ ~isPlayingRef =>
                /\ UNCHANGED Kinematic
                /\ lastTimestamp' = clock'
          /\ isPlayingRef /\ lastTimestamp # Null =>
                /\ frameTime' = clock' - lastTimestamp
                /\ accumulator' + loopSteps' * dt = accumulator + frameTime'
    ]_vars

\* a paused frame on which time had passed, in the middle of a run
C3_Witness ==
    /\ lastOp = "draw"
    /\ ~isPlayingRef
    /\ frameTime > 0
    /\ accumulator > 0
    /\ currentVelocity # 0

\* C4: from the pause on, through any number of draws and up to and including
\* the play that follows, angle, velocity and accumulator are those at the
\* moment of the pause.
C4_PauseKeepsProgress ==
    pauseMark.set =>
        /\ currentAngle = pauseMark.angle
        /\ currentVelocity = pauseMark.velocity
        /\ accumulator = pauseMark.accumulator

\* resumed after a pause in mid-swing during which a frame saw time pass
C4_Witness ==
    /\ lastOp = "play"
    /\ pauseMark.set
    /\ pauseMark.advanced
    /\ pauseMark.velocity # 0
    /\ pauseMark.accumulator > 0

\* C5: after either reset the run state is Paused, the accumulator is 0, every
\* parameter has its documented default, the angle is startingAngle in radians
\* and the velocity is 0.
C5_ResetPostcondition ==
    lastOp \in Resets =>
        /\ ~isPlaying
        /\ ~isPlayingRef
        /\ accumulator = 0
        /\ params.length = 100
        /\ params.mass = 100
        /\ params.startingAngle = 45
        /\ params.gravity = 981
        /\ params.damping = 0
        /\ params.timeInterval = 10
        /\ params.simulationSpeed = 300
        /\ currentAngle = DegToRad(params.startingAngle)
        /\ currentVelocity = 0
        /\ params.currentAngle = DegToRad(params.startingAngle)
        /\ params.currentVelocity = 0

\* Reset All after the toolbar Reset, after a parameter was changed and after
\* frames had written the moving pendulum into the shared default object
C5_Witness ==
    /\ lastOp = "resetAll"
    /\ resetTrigger > 0
    /\ nSets > 0
    /\ defaultParams.currentVelocity # 0

\* C6: a reset that directly follows a reset changes neither the parameters,
\* the run state, the angle, the velocity nor the accumulator.
C6_ResetIdempotent ==
    [][resetsInRow' = 2 =>
          UNCHANGED <<params, isPlaying, isPlayingRef, currentAngle,
                      currentVelocity, accumulator>>
    ]_vars

\* a second reset in a row, after a parameter change and a run
C6_Witness ==
    /\ resetsInRow = 2
    /\ nSets > 0
    /\ clock > 0
    /\ defaultParams.currentVelocity # 0

\* C7: the run state is Paused initially, and a step changes it only when it
\* is a play (to Running), a pause (to Paused) or a reset (to Paused).
C7_RunStateTransitions ==
    /\ ~isPlaying /\ ~isPlayingRef
    /\ [][/\ (isPlaying' # isPlaying \/ isPlayingRef' # isPlayingRef) =>
                lastOp' \in {"play", "pause"} \cup Resets
          /\ lastOp' = "play" => isPlaying' /\ isPlayingRef'
          /\ lastOp' = "pause" => ~isPlaying' /\ ~isPlayingRef'
          /\ lastOp' \in Resets => ~isPlaying' /\ ~isPlayingRef'
       ]_vars

\* a parameter was set while Running and the engine is still Running
C7_Witness ==
    /\ lastOp = "set"
    /\ isPlaying
    /\ isPlayingRef
    /\ clock > 0

\* C8: a parameter update changes neither angle, velocity nor accumulator.
C8_SetKeepsKinematic ==
    [][lastOp' = "set" => UNCHANGED Kinematic]_vars

\* the documented minimum of each clamped field
DocumentedMinimum ==
    [length |-> 1, mass |-> 10, gravity |-> 1, damping |-> 0,
     timeInterval |-> 1, simulationSpeed |-> 1]

\* C9: the stored parameters always satisfy the documented minimums, and an
\* input below a field's minimum is stored as exactly that minimum.
C9_MinimumsHold ==
    /\ \A f \in DOMAIN DocumentedMinimum : params[f] >= DocumentedMinimum[f]
    /\ (/\ lastOp = "set"
        /\ lastInput.key \in DOMAIN DocumentedMinimum
        /\ lastInput.value < DocumentedMinimum[lastInput.key])
          => params[lastInput.key] = DocumentedMinimum[lastInput.key]

\* set({length: -5}) stored length 1
C9_Witness ==
    /\ lastOp = "set"
    /\ lastInput = [key |-> "length", value |-> -5]
    /\ params.length = 1

\* C10: a startingAngle set through the settings panel is stored as given.
C10_StartingAngleUnclamped ==
    (lastOp = "set" /\ lastInput.key = "startingAngle")
        => params.startingAngle = lastInput.value

\* C11: a parameter update is a merge: every field other than the named one,
\* currentAngle and currentVelocity included, keeps its value, no field is
\* added or dropped, and a named field that has a documented minimum holds
\* max(input, minimum).
C11_SetIsMerge ==
    [][lastOp' = "set" =>
          LET k == lastInput'.key
          IN  /\ DOMAIN params' = DOMAIN params
              /\ \A f \in DOMAIN params \ {k} : params'[f] = params[f]
              /\ k \in DOMAIN DocumentedMinimum =>
                    params'[k] = Max(lastInput'.value, DocumentedMinimum[k])
    ]_vars

\* set({length: 50}) after the pendulum has moved: the stored angle and
\* velocity are the integrated ones, not the starting ones
C11_Witness ==
    /\ lastOp = "set"
    /\ lastInput = [key |-> "length", value |-> 50]
    /\ params.length = 50
    /\ params.currentVelocity # 0
    /\ params.currentAngle # DegToRad(params.startingAngle)

\* what integrate leaves of the kinematic state
KinematicOf(st) == <<st.angle, st.velocity, st.accumulator>>

\* C12: the angle, velocity and accumulator a frame leaves are determined by
\* the parameters, the run state, the state before the frame and the frame
\* delta alone: a run that differs in nothing but the size of its canvas
\* gets the same values from every draw.
C12_Deterministic ==
    [][lastOp' = "draw" =>
          \A size \in CanvasSizes :
              KinematicOf(integrate(params, size, isPlayingRef, currentAngle,
                                    currentVelocity, accumulator, dt,
                                    simulationSpeed, frameTime'))
                  = <<currentAngle', currentVelocity', accumulator'>>
    ]_vars

OtherMasses == {10, 100, 250}

C14_DrawKeepsParameters ==
    [][/\ lastOp' = "draw" => \A k \in ParamKeys : params'[k] = params[k]
       /\ (\E k \in ParamKeys : params'[k] # params[k])
             => lastOp' \in Resets \cup {"set"}
    ]_vars

\* a running draw of ten steps has written the new angle and velocity into
\* the params object
C14_Witness ==
    /\ lastOp = "draw"
    /\ isPlayingRef
    /\ loopSteps = 10
    /\ params.currentAngle = currentAngle
    /\ params.currentAngle # DegToRad(params.startingAngle)

\* C15: after every draw, running or paused, also after a parameter update
\* or a reset, params.currentAngle and params.currentVelocity are the angle
\* and the velocity the effect holds and draws.
C15_ExposedStateCurrent ==
    lastOp = "draw" =>
        /\ params.currentAngle = currentAngle
        /\ params.currentVelocity = currentVelocity

\* C16: a step whose result would be NaN is skipped: a draw that starts from
\* a valid angle and velocity ends with a valid angle and velocity.
C16_FaultSkipped ==
    [][(lastOp' = "draw" /\ currentAngle # NaN /\ currentVelocity # NaN)
          => (currentAngle' # NaN /\ currentVelocity' # NaN)
    ]_vars

\* C17: a draw that has entered its while loop leaves it, with the
\* accumulator below the step; each iteration takes exactly dt, which is at
\* least 0.001 s, off the accumulator, and the accumulator never goes
\* negative.
C17_LoopTerminates ==
    /\ [][(pc = "loop" /\ pc' = "loop") =>
              /\ dt >= 1
              /\ accumulator' = accumulator - dt
              /\ accumulator' >= 0
              /\ loopSteps' = loopSteps + 1]_vars
    /\ (pc = "loop") ~> (pc = "idle" /\ accumulator < dt)

\* the loop runs with the smallest step, 0.001 s, on a frame of 0.1 s: 99
\* iterations done, one to go
C17_Witness ==
    /\ pc = "loop"
    /\ dt = 1
    /\ frameTime = 100
    /\ loopSteps = 99
    /\ accumulator = 1

\* the effect has not initialised the engine: it has not run yet, it
\* returned early, or rendering failed
Uninitialized == mount # "running"

Cos(x) == Sin(x + PI \div 2)

\* total mechanical energy per unit of m * L^2 of the pendulum the step
\* functions integrate, velocity^2 / 2 + (gravity / L) * (1 - cos(angle)) with
\* L the length the step functions use, in 1/Scale
EnergyOf(angle, velocity, p, size) ==
    Quot(Quot(velocity, 100) * Quot(velocity, 100), 2)
      + Quot(Max(p.gravity, 1) * (Scale - Cos(angle)), scaledLength(p, size))

\* the energy the run of the effect started with: at rest at startingAngle
InitialEnergy(p, size) == EnergyOf(DegToRad(p.startingAngle), 0, p, size)

\* C19: with damping > 0 no running draw raises the total mechanical energy,
\* up to a tolerance of 5 % of the energy plus two units of the grid.
C19_EnergyNonIncreasing ==
    [][(lastOp' = "draw" /\ isPlayingRef /\ params.damping > 0) =>
          EnergyOf(currentAngle', currentVelocity', params', canvasSize')
            <= EnergyOf(currentAngle, currentVelocity, params, canvasSize)
                 + Quot(EnergyOf(currentAngle, currentVelocity, params,
                                 canvasSize), 20) + 2
    ]_vars

\* C20: with damping = 0 the total mechanical energy after every draw is
\* within a bounded drift, half of the initial energy plus two units of the
\* grid, of its initial value.
C20_EnergyBounded ==
    (lastOp = "draw" /\ params.damping = 0) =>
        LET e  == EnergyOf(currentAngle, currentVelocity, params, canvasSize)
            e0 == InitialEnergy(params, canvasSize)
        IN  /\ e - e0 <= Quot(e0, 2) + 2
            /\ e0 - e <= Quot(e0, 2) + 2

\* the state an iteration of the loop starts from, as the step functions
\* take it
StepInput ==
    [angle |-> currentAngle, velocity |-> currentVelocity,
     accumulator |-> accumulator, n |-> loopSteps, h |-> stepSize]

\* an iteration of the while loop has just been done
IsIteration == pc = "loop" /\ pc' = "loop"

\* C21: an iteration of the loop is a semi-implicit Euler step exactly when
\* the stored damping is 0 and an RK4 step exactly when it is not, whatever
\* the other parameters, the canvas, the iterations before and the frame
\* delta.
C21_SchemeByDamping ==
    [][IsIteration =>
          LET sl == scaledLength(params, canvasSize)
              h  == effectiveDT(dt, simulationSpeed)
              e  == EulerStep(StepInput, params, sl, h)
              r  == RK4Step(StepInput, params, sl, h)
          IN  /\ params.damping = 0 =>
                    <<currentAngle', currentVelocity'>> = <<e.angle, e.velocity>>
              /\ params.damping # 0 =>
                    <<currentAngle', currentVelocity'>> = <<r.angle, r.velocity>>
    ]_vars

\* a damped pendulum in motion is inside the loop, iterations behind it
C21_Witness ==
    /\ pc = "loop"
    /\ loopSteps >= 2
    /\ params.damping = 50
    /\ currentVelocity # 0

effectiveLength(p) == Max(p.length, 1)

\* C24: every step divides the floored gravity by length / 100, floored, and
\* the length the physics uses depends on the length parameter only.
C24_LengthInMetres ==
    [][(IsIteration /\ params.damping = 0) =>
          LET h == dt * simulationSpeed
              g == Max(params.gravity, 1)
          IN  /\ currentVelocity' =
                    currentVelocity
                      + Quot(Quot(Quot(-g * Sin(currentAngle),
                                       effectiveLength(params)), 100) * h, 100)
              /\ \A size \in CanvasSizes :
                    scaledLength(params, size) = scaledLength(params, canvasSize)
    ]_vars

RenderingOps == {"resize", "image", "imageSettings"}

\* C25: a change of the canvas size, of the ball image or of the image
\* settings leaves angle, velocity and accumulator as they were
C25_RenderingInputsInert ==
    [][lastOp' \in RenderingOps => UNCHANGED Kinematic]_vars

\* C26: after an update whose input was NaN every stored parameter is a
\* number, and the parameters with a minimum satisfy it.
C26_NaNNeverStored ==
    (lastOp = "set" /\ lastInput.value = NaN) =>
        \A k \in ParamKeys :
            /\ params[k] # NaN
            /\ k \in DOMAIN MIN_SAFE_VALUES => params[k] >= MIN_SAFE_VALUES[k]

\* C27: while the visualization runs exactly one frame request is pending and
\* it belongs to the current run of the effect; no frame is ever run for a
\* loop whose effect was cleaned up.
C27_OneLoopAlive ==
    /\ pending = (IF mount = "running" THEN {"current"} ELSE {})
    /\ Cardinality(pending) <= 1
    /\ lastOp # "staleDraw"

\* the loop was restarted by a resize in the middle of a run
C27_Witness ==
    /\ lastOp = "resize"
    /\ isPlaying
    /\ clock > 0
    /\ resetTrigger > 0
    /\ pending = {"current"}

\* part_003:91-96 and 116-144: the values the code panel displays for
\* damping === 0: length = params.length / 100, the acceleration from the
\* stored gravity, the angle advanced by the previous velocity
updateCalculationSteps(prevAngle, prevVelocity, p) ==
    LET h            == p.timeInterval * p.simulationSpeed
        acc          == Quot(-p.gravity * Sin(prevAngle), p.length)
        newVelocity  == prevVelocity + Quot(Quot(acc, 100) * h, 100)
        newAngle     == prevAngle + TimesStep(prevVelocity, h)
    IN  [angle |-> newAngle, velocity |-> newVelocity]

\* C28: for damping 0 the code panel's calculation from the state before an
\* iteration gives the angle and the velocity the iteration produces.
C28_PanelMatchesEngine ==
    [][(IsIteration /\ params.damping = 0) =>
          LET shown == updateCalculationSteps(currentAngle, currentVelocity,
                                              params)
          IN  /\ currentAngle' = shown.angle
              /\ currentVelocity' = shown.velocity
    ]_vars

OpenTooltips == {k \in TooltipKeys : isTooltipOpen[k]}

\* C29: after every step at most one tooltip is open, and it is the one of
\* the active key; a close from an icon that is not the active one changes
\* neither the active key nor any icon's tooltip.
C29_OneTooltipOpen ==
    [][/\ Cardinality(OpenTooltips') <= 1
       /\ OpenTooltips' \subseteq {activeTooltipKey'}
       /\ (lastOp' = "closeTooltip" /\ lastInput'.key # activeTooltipKey)
             => UNCHANGED <<activeTooltipKey, isTooltipOpen>>
    ]_vars

\* while the tooltip of the rotation is open, the close handler of the
\* length icon has run
C29_Witness ==
    /\ lastOp = "closeTooltip"
    /\ lastInput.key = "length"
    /\ activeTooltipKey = "rotation"
    /\ OpenTooltips = {"rotation"}

\* C30: the zoom is always between 0.5 and 5, and a reset of the view leaves
\* zoom 1 and pan (0, 0).
C30_ZoomInRange ==
    /\ 500 <= zoom
    /\ zoom <= 5000
    /\ lastOp = "resetView" => (zoom = 1000 /\ pan = [x |-> 0, y |-> 0])

\* a long scroll towards the user on a panned view stops at zoom 5
C30_Witness ==
    /\ lastOp = "wheel"
    /\ lastInput.value = -5000
    /\ zoom = 5000
    /\ pan.x # 0

====
